---- MODULE Spec2Model ----
(***************************************************************************)
(* Model of rhasspyhermes_app.HermesApp: the handler registry filled by    *)
(* the on_hotword / on_intent / on_intent_not_recognized / on_topic        *)
(* decorators, the start-up subscription, and the dispatcher               *)
(* on_raw_message with the session response translation done by the       *)
(* closures the decorators build.                                          *)
(*                                                                         *)
(* Strings of the program are sequences of one-character strings, so that  *)
(* split, join, slicing and regular-expression matching are computed as    *)
(* the code computes them.                                                 *)
(***************************************************************************)
EXTENDS Integers, Sequences, FiniteSets, Bags, TLC

VARIABLES
  callbacks_hotword,                 \* self._callbacks_hotword
  callbacks_intent,                  \* self._callbacks_intent (dict name -> list)
  callbacks_intent_not_recognized,   \* self._callbacks_intent_not_recognized
  callbacks_topic,                   \* self._callbacks_topic (dict topic -> list)
  callbacks_topic_regex,             \* self._callbacks_topic_regex
  additional_topic,                  \* self._additional_topic
  started,                           \* run() has been called
  subscribed,                        \* bag of topics handed to subscribe_topics
  nreg,                              \* number of decorator applications so far
  last,                              \* the (topic, payload) of the latest on_raw_message call
  invoked,                           \* handler calls made by the latest on_raw_message call
  published,                         \* self.publish calls made by it
  log,                               \* _LOGGER records written by it
  escaped,                           \* an exception left on_raw_message
  prev_failed,                       \* history: the call before the latest one logged a failure
  in_queue,                          \* messages received and not yet handed to on_raw_message
  pc,                                \* what the event loop runs: "idle" or "on_raw_message"
  pos,                               \* index of the handler on_raw_message calls next
  timer,                             \* a loop.call_later handle is pending (timer_app)
  activeTimerBySite,                 \* timer_app.activeTimerBySite: site -> index of its handle
  handles,                           \* the handles loop.call_later has returned so far
  notifications,                     \* history: the expiry notifications published so far
  event                              \* the latest call the event loop made into timer_app

registry == <<callbacks_hotword, callbacks_intent, callbacks_intent_not_recognized,
              callbacks_topic, callbacks_topic_regex, additional_topic>>
outcome == <<last, invoked, published, log, escaped, prev_failed>>
loop == <<in_queue, pc, pos, timer>>
timer_app == <<activeTimerBySite, handles, notifications, event>>
vars == <<callbacks_hotword, callbacks_intent, callbacks_intent_not_recognized,
          callbacks_topic, callbacks_topic_regex, additional_topic,
          started, subscribed, nreg, last, invoked, published, log, escaped, prev_failed,
          in_queue, pc, pos, timer,
          activeTimerBySite, handles, notifications, event>>

\* ---------------------------------------------------------------- bounds
MaxRegs == 3
MaxTopicRegs == 2
MaxLoopRegs == 2
MaxMixedRegs == 2
MaxQueue == 2
MaxTimers == 3

\* ---------------------------------------------------------------- strings
None == "None"

RECURSIVE Join(_)
\* "/".join(parts)
Join(parts) ==
  IF Len(parts) = 0 THEN <<>>
  ELSE IF Len(parts) = 1 THEN parts[1]
  ELSE parts[1] \o <<"/">> \o Join(Tail(parts))

RECURSIVE SplitFrom(_, _, _)
SplitFrom(s, i, cur) ==
  IF i > Len(s) THEN <<cur>>
  ELSE IF s[i] = "/" THEN <<cur>> \o SplitFrom(s, i + 1, <<>>)
  ELSE SplitFrom(s, i + 1, Append(cur, s[i]))

\* s.split(sep="/")
Split(s) == SplitFrom(s, 1, <<>>)

\* s[a:b] for 0 <= a, with Python's clamping (b may be negative)
Slice(s, a, b) ==
  LET hi == IF b < 0 THEN Len(s) + b ELSE IF b > Len(s) THEN Len(s) ELSE b
  IN  IF hi <= a THEN <<>> ELSE SubSeq(s, a + 1, hi)

StartsWith(s, p) == Len(s) >= Len(p) /\ SubSeq(s, 1, Len(p)) = p

HERMES == <<"h", "e", "r", "m", "e", "s">>
HOTWORD == <<"h", "o", "t", "w", "o", "r", "d">>
DETECTED == <<"d", "e", "t", "e", "c", "t", "e", "d">>
INTENT == <<"i", "n", "t", "e", "n", "t">>
NLU == <<"n", "l", "u">>
INTENTNOTRECOGNIZED ==
  <<"i", "n", "t", "e", "n", "t", "N", "o", "t",
    "R", "e", "c", "o", "g", "n", "i", "z", "e", "d">>

\* HotwordDetected.topic(): hermes/hotword/+/detected
HotwordTopic == Join(<<HERMES, HOTWORD, <<"+">>, DETECTED>>)
\* NluIntent.topic(intent_name=n): hermes/intent/<n>
IntentTopic(n) == Join(<<HERMES, INTENT, n>>)
\* NluIntentNotRecognized.topic(): hermes/nlu/intentNotRecognized
NotRecognizedTopic == Join(<<HERMES, NLU, INTENTNOTRECOGNIZED>>)

\* HotwordDetected.is_topic: ^hermes/hotword/([^/]+)/detected$
HotwordIsTopic(topic) ==
  LET p == Split(topic)
  IN  /\ StartsWith(topic, HERMES \o <<"/">> \o HOTWORD \o <<"/">>)
      /\ Len(p) = 4
      /\ p[1] = HERMES /\ p[2] = HOTWORD /\ Len(p[3]) > 0 /\ p[4] = DETECTED

\* NluIntent.is_topic: ^hermes/intent/(.+)$
IntentIsTopic(topic) ==
  LET prefix == HERMES \o <<"/">> \o INTENT \o <<"/">>
  IN  StartsWith(topic, prefix) /\ Len(topic) > Len(prefix)

\* NluIntentNotRecognized.is_topic: topic == cls.topic()
NotRecognizedIsTopic(topic) == topic = NotRecognizedTopic

\* ---------------------------------------------------------------- handlers
\* The application functions handed to the decorators.  Each has one
\* behaviour: what it returns, or the exception class it raises.
Handlers == {"hNone", "hRaise", "hEnd", "hCont"}
\* one more, for on_hotword: a function whose body raises KeyError
HotwordHandlers == {"hNone", "hRaise", "hKeyError"}

A == <<"A">>
B == <<"B">>

NoResult == [kind |-> "None", exc |-> None, text |-> None, custom_data |-> None,
             intent_filter |-> <<>>, send_intent_not_recognized |-> FALSE]

\* function(...): the value the application function returns
function(h) ==
  CASE h = "hNone" -> NoResult
    [] h = "hRaise" -> [NoResult EXCEPT !.kind = "raise", !.exc = "Exception"]
    [] h = "hKeyError" -> [NoResult EXCEPT !.kind = "raise", !.exc = "KeyError"]
    [] h = "hEnd" -> [NoResult EXCEPT !.kind = "EndSession", !.text = "bye",
                                      !.custom_data = "c1"]
    [] h = "hCont" -> [NoResult EXCEPT !.kind = "ContinueSession", !.text = "more",
                                       !.custom_data = "c2",
                                       !.intent_filter = <<B, A>>,
                                       !.send_intent_not_recognized = TRUE]
    [] h = "hTimer" -> [NoResult EXCEPT !.kind = "EndSession", !.text = "timer"]

\* ---------------------------------------------------------------- payloads
\* A payload is described by what from_json makes of it: "ok" decodes to a
\* record, "missing" lacks a required key (from_json raises KeyError),
\* "garbage" is not JSON at all (from_json raises another Exception).
Decoded(payload) == [session_id |-> payload.session_id, site_id |-> payload.site_id,
                     intent_name |-> payload.intent_name]

\* X.from_json(payload)
from_json(payload) ==
  CASE payload.kind = "ok" -> [exc |-> None, value |-> Decoded(payload)]
    [] payload.kind = "missing" -> [exc |-> "KeyError", value |-> None]
    [] payload.kind = "garbage" -> [exc |-> "Exception", value |-> None]

\* ---------------------------------------------------------------- session response translation
CallResult(pub, lg, exc) == [published |-> pub, log |-> lg, exc |-> exc]

\* DialogueEndSession(...) as built in on_intent.wrapped
IntentEndSession(intent, message) ==
  [type |-> "DialogueEndSession", session_id |-> intent.session_id,
   site_id |-> intent.site_id, text |-> message.text,
   custom_data |-> message.custom_data]

\* mutant of IntentContinueSession: the intent filter is not passed on
IntentContinueSession_NoFilter(intent, message) ==
  [type |-> "DialogueContinueSession", session_id |-> intent.session_id,
   site_id |-> intent.site_id, text |-> message.text,
   intent_filter |-> <<>>,
   custom_data |-> message.custom_data,
   send_intent_not_recognized |-> message.send_intent_not_recognized]

\* DialogueContinueSession(...) as built in on_intent.wrapped
IntentContinueSession(intent, message) ==
  [type |-> "DialogueContinueSession", session_id |-> intent.session_id,
   site_id |-> intent.site_id, text |-> message.text,
   intent_filter |-> message.intent_filter,
   custom_data |-> message.custom_data,
   send_intent_not_recognized |-> message.send_intent_not_recognized]

\* mutant of NotRecognizedEndSession: text and custom_data change places
NotRecognizedEndSession_Swapped(inr, message) ==
  [type |-> "DialogueEndSession", session_id |-> inr.session_id,
   site_id |-> inr.site_id, text |-> message.custom_data,
   custom_data |-> message.text]

\* DialogueEndSession(...) as built in on_intent_not_recognized.wrapped
NotRecognizedEndSession(inr, message) ==
  [type |-> "DialogueEndSession", session_id |-> inr.session_id,
   site_id |-> inr.site_id, text |-> message.text,
   custom_data |-> message.custom_data]

\* DialogueContinueSession(...) as built in on_intent_not_recognized.wrapped
NotRecognizedContinueSession(inr, message) ==
  [type |-> "DialogueContinueSession", session_id |-> inr.session_id,
   site_id |-> inr.site_id, text |-> message.text,
   intent_filter |-> message.intent_filter,
   custom_data |-> message.custom_data,
   send_intent_not_recognized |-> message.send_intent_not_recognized]

\* the closure `wrapped` that on_intent registers for function h
wrapped_intent(h, intent) ==
  LET message == function(h)
  IN  IF message.kind = "raise" THEN CallResult(<<>>, <<>>, message.exc)
      ELSE IF message.kind = "EndSession" THEN
        IF intent.session_id # None
        THEN CallResult(<<IntentEndSession(intent, message)>>, <<>>, None)
        ELSE CallResult(<<>>, <<"error: cannot end session of intent without session ID">>, None)
      ELSE IF message.kind = "ContinueSession" THEN
        IF intent.session_id # None
        THEN CallResult(<<IntentContinueSession(intent, message)>>, <<>>, None)
        ELSE CallResult(<<>>, <<"error: cannot continue session of intent without session ID">>, None)
      ELSE CallResult(<<>>, <<>>, None)

\* mutant of wrapped_inr: the session id is not tested before publishing
wrapped_inr_NoSessionCheck(h, inr) ==
  LET message == function(h)
  IN  IF message.kind = "raise" THEN CallResult(<<>>, <<>>, message.exc)
      ELSE IF message.kind = "EndSession"
      THEN CallResult(<<NotRecognizedEndSession(inr, message)>>, <<>>, None)
      ELSE IF message.kind = "ContinueSession"
      THEN CallResult(<<NotRecognizedContinueSession(inr, message)>>, <<>>, None)
      ELSE CallResult(<<>>, <<>>, None)

\* the closure `wrapped` that on_intent_not_recognized registers for function h
wrapped_inr(h, inr) ==
  LET message == function(h)
  IN  IF message.kind = "raise" THEN CallResult(<<>>, <<>>, message.exc)
      ELSE IF message.kind = "EndSession" THEN
        IF inr.session_id # None
        THEN CallResult(<<NotRecognizedEndSession(inr, message)>>, <<>>, None)
        ELSE CallResult(<<>>, <<"error: cannot end session of intent not recognized message without session ID">>, None)
      ELSE IF message.kind = "ContinueSession" THEN
        IF inr.session_id # None
        THEN CallResult(<<NotRecognizedContinueSession(inr, message)>>, <<>>, None)
        ELSE CallResult(<<>>, <<"error: cannot continue session of intent not recognized message without session ID">>, None)
      ELSE CallResult(<<>>, <<>>, None)

\* mutant of call_hotword: the result of a hotword function is translated
\* like the result of an intent function
call_hotword_Translated(h, hotword) == wrapped_intent(h, hotword)

\* a function registered by on_hotword is called directly; its result is dropped
call_hotword(h, hotword) ==
  LET message == function(h)
  IN  IF message.kind = "raise" THEN CallResult(<<>>, <<>>, message.exc)
      ELSE CallResult(<<>>, <<>>, None)

\* the closure `wrapped` that on_topic registers for function h
wrapped_topic(h, data) ==
  LET message == function(h)
  IN  IF message.kind = "raise" THEN CallResult(<<>>, <<>>, message.exc)
      ELSE CallResult(<<>>, <<>>, None)

\* ---------------------------------------------------------------- the handler loops
\* What one on_raw_message call has done so far.
Trace(inv, pub, lg, exc) == [invoked |-> inv, published |-> pub, log |-> lg, exc |-> exc]
EmptyTrace == Trace(<<>>, <<>>, <<>>, None)

Call(kind, h, arg) ==
  CASE kind = "hotword" -> call_hotword(h, arg)
    [] kind = "intent" -> wrapped_intent(h, arg)
    [] kind = "inr" -> wrapped_inr(h, arg)
    [] kind = "topic" -> wrapped_topic(h, arg)

\* the trace after calling h: the call is recorded (with the extracted data it
\* was given and `via`, the registered topic name that led to it), then its
\* publishes and logs
\* mutant of Recorded: the publishes of a call are put before the earlier ones
Recorded_Prepend(acc, call, r) ==
  Trace(Append(acc.invoked, call), r.published \o acc.published, acc.log \o r.log, r.exc)

Recorded(acc, call, r) ==
  Trace(Append(acc.invoked, call), acc.published \o r.published, acc.log \o r.log, r.exc)

AfterCall(kind, h, arg, data, via, acc) ==
  Recorded(acc, [fn |-> h, data |-> data, via |-> via], Call(kind, h, arg))

\* whether the `for` loop goes on to its next element after a call
LoopContinues(exc) == exc = None

RECURSIVE ForEach(_, _, _, _)
\* the rest of the loop after the call that left the trace acc: an exception
\* leaves the loop, anything else goes on with the functions in fs
ForEachRest(kind, fs, arg, acc) ==
  IF LoopContinues(acc.exc) THEN ForEach(kind, fs, arg, acc) ELSE acc

\* for f in fs: f(arg)
ForEach(kind, fs, arg, acc) ==
  IF fs = <<>> THEN acc
  ELSE ForEachRest(kind, Tail(fs), arg,
                   AfterCall(kind, Head(fs), arg, <<>>,
                             IF kind = "topic" THEN arg ELSE <<>>, acc))

\* ---------------------------------------------------------------- regular expressions
\* The expressions on_topic builds are made of ^, $, literal characters,
\* bracket classes and the + quantifier.  An atom accepts the characters
\* of `set` (or all others when `neg`); `plus` repeats it one or more times.
Atom(type, neg, set, plus) == [type |-> type, neg |-> neg, set |-> set, plus |-> plus]

RECURSIVE ClassEnd(_, _)
\* index of the "]" closing the bracket class opened before position i
ClassEnd(p, i) ==
  IF i > Len(p) THEN Len(p) + 1
  ELSE IF p[i] = "]" THEN i
  ELSE ClassEnd(p, i + 1)

RECURSIVE Compile(_, _)
\* re.compile(p): the atoms of the expression text p from position i on
Compile(p, i) ==
  IF i > Len(p) THEN <<>>
  ELSE IF p[i] = "^" THEN <<Atom("bol", FALSE, {}, FALSE)>> \o Compile(p, i + 1)
  ELSE IF p[i] = "$" THEN <<Atom("eol", FALSE, {}, FALSE)>> \o Compile(p, i + 1)
  ELSE IF p[i] = "[" THEN
    LET neg == i + 1 <= Len(p) /\ p[i + 1] = "^"
        first == IF neg THEN i + 2 ELSE i + 1
        e == ClassEnd(p, first + 1)
        set == {p[k] : k \in first .. (e - 1)}
        plus == e + 1 <= Len(p) /\ p[e + 1] = "+"
    IN  <<Atom("char", neg, set, plus)>> \o Compile(p, IF plus THEN e + 2 ELSE e + 1)
  ELSE
    LET plus == i + 1 <= Len(p) /\ p[i + 1] = "+"
    IN  <<Atom("char", FALSE, {p[i]}, plus)>> \o Compile(p, IF plus THEN i + 2 ELSE i + 1)

Accepts(atom, c) == IF atom.neg THEN c \notin atom.set ELSE c \in atom.set

RECURSIVE MatchAt(_, _, _, _)
\* the atoms from k on match s from position j on (a prefix of the rest)
MatchAt(atoms, k, s, j) ==
  IF k > Len(atoms) THEN TRUE
  ELSE LET a == atoms[k]
       IN  IF a.type = "bol" THEN j = 1 /\ MatchAt(atoms, k + 1, s, j)
           ELSE IF a.type = "eol" THEN j = Len(s) + 1 /\ MatchAt(atoms, k + 1, s, j)
           ELSE IF a.plus THEN
             \E n \in 1 .. (Len(s) - j + 1) :
               /\ \A m \in j .. (j + n - 1) : Accepts(a, s[m])
               /\ MatchAt(atoms, k + 1, s, j + n)
           ELSE j <= Len(s) /\ Accepts(a, s[j]) /\ MatchAt(atoms, k + 1, s, j + 1)

\* re.match(pattern, topic) is not None
re_match(pattern, topic) == MatchAt(Compile(pattern, 1), 1, topic, 1)

\* ---------------------------------------------------------------- on_topic: pattern compilation
IsPlaceholder(token) ==
  Len(token) >= 1 /\ token[1] = "{" /\ token[Len(token)] = "}"

\* placeholder_mapper: the token that replaces part i of the pattern
placeholder_mapper(i, token) == IF IsPlaceholder(token) THEN <<"+">> ELSE token

\* named_positions after the map over enumerate(parts): a later placeholder
\* of the same name overwrites the position of an earlier one
NamedPositions(parts) ==
  LET idx == {i \in 1 .. Len(parts) : IsPlaceholder(parts[i])}
      names == {Slice(parts[i], 1, -1) : i \in idx}
  IN  [n \in names |->
        (CHOOSE i \in idx : /\ Slice(parts[i], 1, -1) = n
                            /\ \A k \in idx : Slice(parts[k], 1, -1) = n => k <= i) - 1]

\* mutant of regex_mapper: a final `#` is compiled like a final `+`
regex_mapper_HashSingle(i, token, length) ==
  IF i = 0 THEN
    IF token = <<"+">> THEN <<"^", "[", "^", "+", "#", "/", "]">>
    ELSE IF length = 0 /\ token = <<"#">> THEN <<"[", "^", "/", "]", "+">>
    ELSE <<"^">> \o token
  ELSE IF i < length THEN
    IF token = <<"+">> THEN <<"[", "^", "/", "]", "+">> ELSE token
  ELSE IF i = length THEN
    IF token \in {<<"#">>, <<"+">>} THEN <<"[", "^", "/", "]", "+", "$">>
    ELSE token \o <<"$">>
  ELSE token

\* regex_mapper: the piece of the expression for part i (zero-based) of `length + 1`
regex_mapper(i, token, length) ==
  IF i = 0 THEN
    IF token = <<"+">> THEN <<"^", "[", "^", "+", "#", "/", "]">>
    ELSE IF length = 0 /\ token = <<"#">> THEN <<"[", "^", "/", "]", "+">>
    ELSE <<"^">> \o token
  ELSE IF i < length THEN
    IF token = <<"+">> THEN <<"[", "^", "/", "]", "+">> ELSE token
  ELSE IF i = length THEN
    IF token = <<"#">> THEN <<"[", "^", "/", "]", "+">>
    ELSE IF token = <<"+">> THEN <<"[", "^", "/", "]", "+", "$">>
    ELSE token \o <<"$">>
  ELSE token

\* parts = list(map(placeholder_mapper, enumerate(topic_name.split("/"))))
ReplacedParts(topic_name) ==
  LET parts == Split(topic_name)
  IN  [i \in 1 .. Len(parts) |-> placeholder_mapper(i - 1, parts[i])]

\* replaced_topic_name = "/".join(parts)
ReplacedTopicName(topic_name) == Join(ReplacedParts(topic_name))

\* pattern = "/".join(map(regex_mapper, enumerate(parts)))
Pattern(topic_name) ==
  LET parts == ReplacedParts(topic_name)
      length == Len(parts) - 1
  IN  Join([i \in 1 .. Len(parts) |-> regex_mapper(i - 1, parts[i], length)])

\* if topic_name == pattern[1:-1]: the pattern goes to the exact-match table
IsExact(topic_name) == topic_name = Slice(Pattern(topic_name), 1, -1)

\* the entry appended to wrapped.topic_extras (topic_name is kept beside it
\* to tell which registration a call came from)
TopicExtra(topic_name) ==
  LET np == NamedPositions(Split(topic_name))
  IN  [topic_name |-> topic_name,
       pattern |-> Pattern(topic_name),
       none |-> DOMAIN np = {},
       named_positions |-> np]

\* ---------------------------------------------------------------- on_raw_message
\* data.data[name] = parts[position] for every named position
Extracted(extra, topic) ==
  LET parts == Split(topic)
  IN  IF extra.none THEN <<>>
      ELSE [n \in DOMAIN extra.named_positions |-> parts[extra.named_positions[n] + 1]]

\* parts[position] raises IndexError
ExtractFails(extra, topic) ==
  /\ ~extra.none
  /\ \E n \in DOMAIN extra.named_positions :
       extra.named_positions[n] + 1 > Len(Split(topic))

RECURSIVE ForExtras(_, _, _, _)
\* for pattern, named_positions in topic_extras: if re.match(...): function_2(data, payload)
\* the rest of the inner loop after the call that left the trace acc
ForExtrasRest(f, extras, topic, acc) ==
  IF LoopContinues(acc.exc) THEN ForExtras(f, extras, topic, acc) ELSE acc

\* one topic_extra x of function f: if its pattern matches, extract and call
ForExtra(f, x, rest, topic, acc) ==
  IF ~re_match(x.pattern, topic) THEN ForExtras(f, rest, topic, acc)
  ELSE IF ExtractFails(x, topic) THEN [acc EXCEPT !.exc = "Exception"]
  ELSE ForExtrasRest(f, rest, topic,
                     AfterCall("topic", f.fn, topic, Extracted(x, topic),
                               x.topic_name, acc))

\* for topic_extra in function_2.topic_extras: ...
ForExtras(f, extras, topic, acc) ==
  IF extras = <<>> THEN acc
  ELSE ForExtra(f, Head(extras), Tail(extras), topic, acc)

RECURSIVE ForRegex(_, _, _)
\* for function_2 in self._callbacks_topic_regex: ...
\* the rest of the outer loop after function_2's extras left the trace acc
ForRegexRest(fs, topic, acc) ==
  IF LoopContinues(acc.exc) THEN ForRegex(fs, topic, acc) ELSE acc

ForRegex(fs, topic, acc) ==
  IF fs = <<>> THEN acc
  ELSE ForRegexRest(Tail(fs), topic,
                    ForExtras(Head(fs), Head(fs).topic_extras, topic, acc))

\* mutant of ExceptKeyError: the inner except clause is missing
ExceptKeyError_Missing(t) == t

\* except KeyError as key: _LOGGER.error("Missing key ...")
ExceptKeyError(t) ==
  IF t.exc = "KeyError"
  THEN [t EXCEPT !.log = Append(@, "error: missing key in JSON payload"), !.exc = None]
  ELSE t

\* mutant of ExceptException: the outer clause catches KeyError only
ExceptException_KeyErrorOnly(t) ==
  IF t.exc = "KeyError"
  THEN [t EXCEPT !.log = Append(@, "exception: on_raw_message"), !.exc = None]
  ELSE t

\* except Exception: _LOGGER.exception("on_raw_message")
ExceptException(t) ==
  IF t.exc \in {"KeyError", "Exception"}
  THEN [t EXCEPT !.log = Append(@, "exception: on_raw_message"), !.exc = None]
  ELSE t

\* the handlers the generic branch calls when the topic is a key of _callbacks_topic
ExactHandlers(ct, topic) == ct[topic]

\* the generic branch: exact table first, else the patterns
\* mutant of UnexpectedTopic: the warning does not depend on the flag
UnexpectedTopic_Always(t) ==
  IF t.exc = None
  THEN [t EXCEPT !.log = Append(@, "warning: unexpected topic")]
  ELSE t

\* if unexpected_topic: _LOGGER.warning("Unexpected topic: %s", topic)
UnexpectedTopic(t) ==
  IF t.exc = None /\ Len(t.invoked) = 0
  THEN [t EXCEPT !.log = Append(@, "warning: unexpected topic")]
  ELSE t

GenericBranch(ct, ctr, topic) ==
  UnexpectedTopic(IF topic \in DOMAIN ct
                  THEN ForEach("topic", ExactHandlers(ct, topic), topic, EmptyTrace)
                  ELSE ForRegex(ctr, topic, EmptyTrace))

\* the hotword branch
HotwordBranch(ch, payload) ==
  LET d == from_json(payload)
  IN  ExceptKeyError(
        IF d.exc # None THEN [EmptyTrace EXCEPT !.exc = d.exc]
        ELSE ForEach("hotword", ch, d.value, EmptyTrace))

\* the intent branch
IntentBranch(ci, payload) ==
  LET d == from_json(payload)
  IN  ExceptKeyError(
        IF d.exc # None THEN [EmptyTrace EXCEPT !.exc = d.exc]
        ELSE IF d.value.intent_name \in DOMAIN ci
        THEN ForEach("intent", ci[d.value.intent_name], d.value, EmptyTrace)
        ELSE EmptyTrace)

\* the intent-not-recognized branch
NotRecognizedBranch(cinr, payload) ==
  LET d == from_json(payload)
  IN  ExceptKeyError(
        IF d.exc # None THEN [EmptyTrace EXCEPT !.exc = d.exc]
        ELSE ForEach("inr", cinr, d.value, EmptyTrace))

\* mutant of on_raw_message: the exact-match topic table is consulted first
on_raw_message_TopicFirst(ch, ci, cinr, ct, ctr, topic, payload) ==
  ExceptException(
    IF topic \in DOMAIN ct THEN GenericBranch(ct, ctr, topic)
    ELSE IF HotwordIsTopic(topic) THEN HotwordBranch(ch, payload)
    ELSE IF IntentIsTopic(topic) THEN IntentBranch(ci, payload)
    ELSE IF NotRecognizedIsTopic(topic) THEN NotRecognizedBranch(cinr, payload)
    ELSE GenericBranch(ct, ctr, topic))

\* on_raw_message(topic, payload) on the registry (ch, ci, cinr, ct, ctr)
on_raw_message(ch, ci, cinr, ct, ctr, topic, payload) ==
  ExceptException(
    IF HotwordIsTopic(topic) THEN HotwordBranch(ch, payload)
    ELSE IF IntentIsTopic(topic) THEN IntentBranch(ci, payload)
    ELSE IF NotRecognizedIsTopic(topic) THEN NotRecognizedBranch(cinr, payload)
    ELSE GenericBranch(ct, ctr, topic))

\* ---------------------------------------------------------------- decorators
\* try: d[k].append(w) except KeyError: d[k] = [w]
DictAppend(d, k, w) ==
  IF k \in DOMAIN d THEN [d EXCEPT ![k] = Append(@, w)]
  ELSE [x \in DOMAIN d \cup {k} |-> IF x = k THEN <<w>> ELSE d[x]]

EmptyDict == [x \in {} |-> <<>>]

RECURSIVE IntentLoop(_, _, _)
\* for intent_name in intent_names: ... append(wrapped)
IntentLoop(ci, intent_names, h) ==
  IF intent_names = <<>> THEN ci
  ELSE IntentLoop(DictAppend(ci, Head(intent_names), h), Tail(intent_names), h)

RECURSIVE TopicLoop(_, _, _)
\* for topic_name in topic_names: ... ; acc = (callbacks_topic, topic_extras, replaced_topic_names)
TopicLoop(acc, topic_names, h) ==
  IF topic_names = <<>> THEN acc
  ELSE LET topic_name == Head(topic_names)
       IN  TopicLoop(
             IF IsExact(topic_name)
             THEN [acc EXCEPT !.ct = DictAppend(@, topic_name, h)]
             ELSE [acc EXCEPT !.replaced = Append(@, ReplacedTopicName(topic_name)),
                              !.extras = Append(@, TopicExtra(topic_name))],
             Tail(topic_names), h)

\* ---------------------------------------------------------------- inputs
FOO == <<"f", "o", "o">>
BAR == <<"b", "a", "r">>
KITCHEN == <<"k", "i", "t", "c", "h", "e", "n">>
TEST == <<"t", "e", "s", "t">>
OTHERSEG == <<"o", "t", "h", "e", "r">>
SITEID == <<"{", "s", "i", "t", "e", "I", "d", "}">>

\* arguments of on_intent, and the function decorated
IntentRegistrations == ({<<A>>} \X Handlers) \cup {<<<<A, B>>, "hEnd">>}

\* topic patterns handed to on_topic
P_a == <<"a">>
P_a_b == <<"a", "/", "b">>
P_a_hash == <<"a", "/", "#">>
P_a_plus == <<"a", "/", "+">>
P_plus_b == <<"+", "/", "b">>
P_site == Join(<<HERMES, <<"+">>, SITEID, TEST>>)
P_x_b == <<"{", "x", "}", "/", "b">>
P_a_x_hash == <<"a", "/", "{", "x", "}", "/", "#">>
\* `#` in a segment that is not the last
P_a_hash_b == <<"a", "/", "#", "/", "b">>

TopicNameTuples ==
  {<<P_a>>, <<P_a_b>>, <<P_a_hash>>, <<P_a_plus>>, <<P_plus_b>>, <<P_site>>,
   <<P_x_b>>, <<P_a_x_hash>>, <<P_a_hash, P_a_plus>>, <<P_a_b, P_a_hash>>,
   <<P_a_hash_b>>}

TopicHandlers == {"hNone", "hRaise"}

\* arguments of on_topic, and the function decorated: every pattern with a
\* function that returns, two of them also with one that raises
TopicRegistrations ==
  (TopicNameTuples \X {"hNone"}) \cup ({<<P_a_b>>, <<P_a_hash>>} \X TopicHandlers)

NoPayload == [kind |-> "none", session_id |-> None, site_id |-> None, intent_name |-> <<>>]
NoMessage == [topic |-> <<>>, payload |-> NoPayload]

Payload(kind, session_id, intent_name) ==
  [kind |-> kind, session_id |-> session_id, site_id |-> "kitchen",
   intent_name |-> intent_name]

\* the payloads a broker can deliver on a topic of intent n (n = <<>> otherwise)
Payloads(n) ==
  {Payload("ok", "s1", n), Payload("ok", None, n),
   Payload("missing", None, n), Payload("garbage", None, n)}

SessionMessages ==
  {[topic |-> Join(<<HERMES, HOTWORD, <<"w">>, DETECTED>>), payload |-> p] :
     p \in {Payload("ok", None, <<>>), Payload("missing", None, <<>>)}}
  \cup {[topic |-> NotRecognizedTopic, payload |-> p] : p \in Payloads(<<>>)}
  \cup {[topic |-> IntentTopic(A), payload |-> p] : p \in Payloads(A)}
  \cup {[topic |-> IntentTopic(B), payload |-> Payload("ok", "s1", B)]}

GenericTopics ==
  {<<"a">>, <<"a", "b">>, <<"a", "/", "b">>, <<"a", "/", "b", "/", "c">>,
   <<"x", "/", "b">>, <<"x", "y", "/", "b">>, <<"a", "/", "k">>,
   <<"a", "/", "#", "/", "b">>,
   Join(<<HERMES, FOO, KITCHEN, TEST>>), Join(<<HERMES, FOO, BAR, OTHERSEG>>)}

TopicMessages == {[topic |-> t, payload |-> Payload("ok", None, <<>>)] : t \in GenericTopics}

\* ---------------------------------------------------------------- state machine
Init ==
  /\ callbacks_hotword = <<>>
  /\ callbacks_intent = EmptyDict
  /\ callbacks_intent_not_recognized = <<>>
  /\ callbacks_topic = EmptyDict
  /\ callbacks_topic_regex = <<>>
  /\ additional_topic = <<>>
  /\ started = FALSE
  /\ subscribed = EmptyBag
  /\ nreg = 0
  /\ last = NoMessage
  /\ invoked = <<>>
  /\ published = <<>>
  /\ log = <<>>
  /\ escaped = FALSE
  /\ prev_failed = FALSE
  /\ in_queue = <<>>
  /\ pc = "idle"
  /\ pos = 1
  /\ timer = FALSE
  /\ activeTimerBySite = [x \in {} |-> 0]
  /\ handles = <<>>
  /\ notifications = <<>>
  /\ event = [kind |-> "none", site_id |-> None, minutes |-> 0, seconds |-> 0]

\* @app.on_hotword applied to h
on_hotword(h) ==
  /\ callbacks_hotword' = Append(callbacks_hotword, h)
  /\ nreg' = nreg + 1
  /\ UNCHANGED <<callbacks_intent, callbacks_intent_not_recognized, callbacks_topic,
                 callbacks_topic_regex, additional_topic, started, subscribed>>
  /\ UNCHANGED outcome
  /\ UNCHANGED loop
  /\ UNCHANGED timer_app

\* @app.on_intent(*intent_names) applied to h
on_intent(intent_names, h) ==
  /\ callbacks_intent' = IntentLoop(callbacks_intent, intent_names, h)
  /\ nreg' = nreg + 1
  /\ UNCHANGED <<callbacks_hotword, callbacks_intent_not_recognized, callbacks_topic,
                 callbacks_topic_regex, additional_topic, started, subscribed>>
  /\ UNCHANGED outcome
  /\ UNCHANGED loop
  /\ UNCHANGED timer_app

\* @app.on_intent_not_recognized() applied to h
on_intent_not_recognized(h) ==
  /\ callbacks_intent_not_recognized' = Append(callbacks_intent_not_recognized, h)
  /\ nreg' = nreg + 1
  /\ UNCHANGED <<callbacks_hotword, callbacks_intent, callbacks_topic,
                 callbacks_topic_regex, additional_topic, started, subscribed>>
  /\ UNCHANGED outcome
  /\ UNCHANGED loop
  /\ UNCHANGED timer_app

\* @app.on_topic(*topic_names) applied to h
on_topic(topic_names, h) ==
  LET r == TopicLoop([ct |-> callbacks_topic, extras |-> <<>>, replaced |-> <<>>],
                     topic_names, h)
  IN  /\ callbacks_topic' = r.ct
      /\ IF r.extras # <<>>
         THEN /\ callbacks_topic_regex' =
                   Append(callbacks_topic_regex, [fn |-> h, topic_extras |-> r.extras])
              /\ additional_topic' = additional_topic \o r.replaced
         ELSE UNCHANGED <<callbacks_topic_regex, additional_topic>>
      /\ nreg' = nreg + 1
      /\ UNCHANGED <<callbacks_hotword, callbacks_intent, callbacks_intent_not_recognized,
                     started, subscribed>>
      /\ UNCHANGED outcome
      /\ UNCHANGED loop
      /\ UNCHANGED timer_app

RECURSIVE SeqToBag(_)
SeqToBag(s) == IF s = <<>> THEN EmptyBag ELSE SetToBag({Head(s)}) (+) SeqToBag(Tail(s))

\* _subscribe_callbacks: the topics passed to subscribe_topics, as a bag
subscribe_callbacks ==
  SetToBag({IntentTopic(n) : n \in DOMAIN callbacks_intent})
  (+) (IF callbacks_hotword # <<>> THEN SetToBag({HotwordTopic}) ELSE EmptyBag)
  (+) (IF callbacks_intent_not_recognized # <<>>
       THEN SetToBag({NotRecognizedTopic}) ELSE EmptyBag)
  (+) SetToBag(DOMAIN callbacks_topic)
  (+) SeqToBag(additional_topic)

\* app.run(): subscribe, then start the message loop
run ==
  /\ ~started
  /\ started' = TRUE
  /\ subscribed' = subscribe_callbacks
  /\ UNCHANGED registry
  /\ UNCHANGED <<nreg, last, invoked, published, log, escaped, prev_failed>>
  /\ UNCHANGED loop
  /\ UNCHANGED timer_app

\* the latest on_raw_message call logged a decode failure or an exception
Failed ==
  \E i \in 1 .. Len(log) :
    log[i] \in {"error: missing key in JSON payload", "exception: on_raw_message"}

\* mutant of Delivered: dispatching empties the intent table
Delivered_ForgetsIntents(msg, t) ==
  /\ last' = msg
  /\ invoked' = t.invoked
  /\ published' = t.published
  /\ log' = t.log
  /\ escaped' = (t.exc # None)
  /\ prev_failed' = Failed
  /\ callbacks_intent' = EmptyDict
  /\ UNCHANGED <<callbacks_hotword, callbacks_intent_not_recognized, callbacks_topic,
                 callbacks_topic_regex, additional_topic>>
  /\ UNCHANGED <<started, subscribed, nreg>>
  /\ UNCHANGED loop
  /\ UNCHANGED timer_app

\* what one on_raw_message call leaves behind: the observable outcome t
Delivered(msg, t) ==
  /\ last' = msg
  /\ invoked' = t.invoked
  /\ published' = t.published
  /\ log' = t.log
  /\ escaped' = (t.exc # None)
  /\ prev_failed' = Failed
  /\ UNCHANGED registry
  /\ UNCHANGED <<started, subscribed, nreg>>
  /\ UNCHANGED loop
  /\ UNCHANGED timer_app

\* the message loop hands one (topic, payload) to on_raw_message
Dispatch(msg) ==
  /\ started
  /\ ~escaped
  /\ Delivered(msg, on_raw_message(callbacks_hotword, callbacks_intent,
                                   callbacks_intent_not_recognized, callbacks_topic,
                                   callbacks_topic_regex, msg.topic, msg.payload))

RegisterHotword == ~started /\ nreg < MaxRegs /\ \E h \in HotwordHandlers : on_hotword(h)
RegisterIntent ==
  ~started /\ nreg < MaxRegs /\ \E r \in IntentRegistrations : on_intent(r[1], r[2])
RegisterIntentNotRecognized ==
  ~started /\ nreg < MaxRegs /\ \E h \in Handlers : on_intent_not_recognized(h)
RegisterTopic ==
  ~started /\ nreg < MaxTopicRegs
  /\ \E r \in TopicRegistrations : on_topic(r[1], r[2])
DispatchSession == \E msg \in SessionMessages : Dispatch(msg)
DispatchTopic == \E msg \in TopicMessages : Dispatch(msg)

\* the session side: hotword, intent and intent-not-recognized handlers
Next == RegisterHotword \/ RegisterIntent \/ RegisterIntentNotRecognized \/ run
        \/ DispatchSession
Spec == Init /\ [][Next]_vars

\* the raw-topic side: on_topic handlers and generic topics
NextTopic == RegisterTopic \/ run \/ DispatchTopic
SpecTopic == Init /\ [][NextTopic]_vars

\* an app that decorates functions of every kind, some of them with topic
\* patterns that the topics of hotword, intent and not-recognized messages match
P_intent_hash == Join(<<HERMES, INTENT, <<"#">>>>)
MixedTopicNames == {P_intent_hash, HotwordTopic, NotRecognizedTopic, P_a_hash}
MixedHandlers == {"hNone", "hEnd", "hCont"}

MixedMessages ==
  {[topic |-> Join(<<HERMES, HOTWORD, <<"w">>, DETECTED>>), payload |-> Payload("ok", "s1", <<>>)],
   [topic |-> NotRecognizedTopic, payload |-> Payload("ok", "s1", <<>>)],
   [topic |-> NotRecognizedTopic, payload |-> Payload("missing", None, <<>>)],
   [topic |-> IntentTopic(A), payload |-> Payload("ok", "s1", A)],
   [topic |-> IntentTopic(A), payload |-> Payload("ok", None, A)],
   [topic |-> IntentTopic(B), payload |-> Payload("ok", "s1", B)],
   [topic |-> <<"a", "/", "b">>, payload |-> Payload("ok", "s1", <<>>)]}

RegisterMixed ==
  /\ ~started
  /\ nreg < MaxMixedRegs
  /\ \E h \in MixedHandlers :
       \/ on_hotword(h)
       \/ on_intent(<<A>>, h)
       \/ on_intent_not_recognized(h)
       \/ \E n \in MixedTopicNames : on_topic(<<n>>, h)
DispatchMixed == \E msg \in MixedMessages : Dispatch(msg)

NextMixed == RegisterMixed \/ run \/ DispatchMixed
SpecMixed == Init /\ [][NextMixed]_vars

\* ---------------------------------------------------------------- the event loop
\* run() starts one asyncio loop; it takes the received messages one at a
\* time and runs on_raw_message for each, and it runs the callbacks handed
\* to loop.call_later.  Here on_raw_message is taken apart into its steps.

\* functions decorated with on_intent in the timer app: one that starts a
\* timer, one that returns nothing, one that raises, one that continues the session
TimerAppHandlers == {"hTimer", "hNone", "hRaise", "hCont"}

LoopMessages ==
  {[topic |-> IntentTopic(A), payload |-> Payload("ok", "s1", A)],
   [topic |-> IntentTopic(A), payload |-> Payload("missing", None, A)],
   [topic |-> IntentTopic(B), payload |-> Payload("ok", "s1", B)]}

\* DialogueStartSession(init=notification, site_id=site_id)
StartSession(site_id) ==
  [type |-> "DialogueStartSession", session_id |-> None, site_id |-> site_id,
   text |-> "time is up", custom_data |-> None]

\* the list the `for` loop of the intent branch runs over for the latest message
PendingHandlers ==
  IF last.payload.intent_name \in DOMAIN callbacks_intent
  THEN callbacks_intent[last.payload.intent_name] ELSE <<>>

\* mutant of on_raw_message_awaits: the coroutine awaits between two handlers
on_raw_message_awaits_Yield == TRUE

\* whether the body of on_raw_message holds an await (a point at which the
\* event loop may run something else): every handler is called directly
on_raw_message_awaits == FALSE

\* the event loop may start another callback
LoopFree == pc = "idle" \/ on_raw_message_awaits

\* the transport's thread puts a received message into the queue
Arrive(msg) ==
  /\ started
  /\ Len(in_queue) < MaxQueue
  /\ in_queue' = Append(in_queue, msg)
  /\ UNCHANGED registry
  /\ UNCHANGED outcome
  /\ UNCHANGED <<started, subscribed, nreg, pc, pos, timer>>
  /\ UNCHANGED timer_app

\* on_raw_message begins: classification and from_json, with both except clauses
Entered(msg, t) ==
  /\ last' = msg
  /\ invoked' = <<>>
  /\ published' = <<>>
  /\ log' = ExceptException(ExceptKeyError(t)).log
  /\ pc' = IF t.exc = None THEN "on_raw_message" ELSE "idle"
  /\ pos' = 1

\* the loop takes the next message and enters on_raw_message
NextMessage ==
  /\ started
  /\ pc = "idle"
  /\ in_queue # <<>>
  /\ IntentIsTopic(Head(in_queue).topic)
  /\ in_queue' = Tail(in_queue)
  /\ Entered(Head(in_queue),
             [EmptyTrace EXCEPT !.exc = from_json(Head(in_queue).payload).exc])
  /\ UNCHANGED registry
  /\ UNCHANGED <<started, subscribed, nreg, escaped, prev_failed, timer>>
  /\ UNCHANGED timer_app

\* the state after function_i(nlu_intent) left the trace t
Stepped(t) ==
  /\ invoked' = t.invoked
  /\ published' = t.published
  /\ log' = ExceptException(ExceptKeyError(t)).log
  /\ pc' = IF t.exc = None THEN "on_raw_message" ELSE "idle"
  /\ pos' = pos + 1

\* start_timer: loop.call_later(...) unless a timer is active or the duration is short
start_timer(h) ==
  IF h = "hTimer" /\ ~timer THEN timer' \in BOOLEAN ELSE timer' = timer

\* one turn of `for function_i in self._callbacks_intent[intent_name]`
CallHandler ==
  /\ pc = "on_raw_message"
  /\ pos <= Len(PendingHandlers)
  /\ Stepped(AfterCall("intent", PendingHandlers[pos], Decoded(last.payload), <<>>, <<>>,
                       Trace(invoked, published, log, None)))
  /\ start_timer(PendingHandlers[pos])
  /\ UNCHANGED registry
  /\ UNCHANGED <<started, subscribed, nreg, last, escaped, prev_failed, in_queue>>
  /\ UNCHANGED timer_app

\* the `for` loop is exhausted: on_raw_message returns
Return ==
  /\ pc = "on_raw_message"
  /\ pos > Len(PendingHandlers)
  /\ pc' = "idle"
  /\ UNCHANGED registry
  /\ UNCHANGED outcome
  /\ UNCHANGED <<started, subscribed, nreg, in_queue, pos, timer>>
  /\ UNCHANGED timer_app

\* the callback given to loop.call_later runs and publishes its notification
countdown_reached ==
  /\ timer
  /\ LoopFree
  /\ timer' = FALSE
  /\ published' = Append(published, StartSession(last.payload.site_id))
  /\ UNCHANGED registry
  /\ UNCHANGED <<started, subscribed, nreg, last, invoked, log, escaped, prev_failed,
                 in_queue, pc, pos>>
  /\ UNCHANGED timer_app

RegisterTimerApp ==
  ~started /\ nreg < MaxLoopRegs /\ \E h \in TimerAppHandlers : on_intent(<<A>>, h)
Arrival == \E msg \in LoopMessages : Arrive(msg)

\* the timer app on its event loop
NextLoop == RegisterTimerApp \/ run \/ Arrival \/ NextMessage \/ CallHandler \/ Return
            \/ countdown_reached
SpecLoop == Init /\ [][NextLoop]_vars

\* ---------------------------------------------------------------- the timer app
\* timer_app.py on its event loop: the three intent handlers and the
\* callbacks handed to loop.call_later.  A handle is [site_id, cancelled, ran]
\* as asyncio keeps it, and `stopped` records for the properties that
\* stop_timer found this timer active.

STARTTIMER == <<"S", "t", "a", "r", "t", "T", "i", "m", "e", "r">>
STOPTIMER == <<"S", "t", "o", "p", "T", "i", "m", "e", "r">>
QUERYTIMER == <<"Q", "u", "e", "r", "y", "T", "i", "m", "e", "r">>

Sites == {"kitchen", "bedroom"}

\* the values of the slots (minutes, seconds) of a StartTimer intent
Slots == {<<0, 9>>, <<0, 10>>, <<1, 0>>}

\* the intent message of intent_name from site_id
TimerMessage(intent_name, site_id) ==
  [topic |-> IntentTopic(intent_name),
   payload |-> [Payload("ok", "s1", intent_name) EXCEPT !.site_id = site_id]]

\* EndSession(text)
EndSession(text) == [NoResult EXCEPT !.kind = "EndSession", !.text = text]

\* the module body: the three decorators, in the order of the file
LoadTimerApp ==
  /\ ~started
  /\ nreg = 0
  /\ callbacks_intent' =
       IntentLoop(IntentLoop(IntentLoop(callbacks_intent, <<STOPTIMER>>, "stop_timer"),
                             <<QUERYTIMER>>, "query_timer"),
                  <<STARTTIMER>>, "start_timer")
  /\ nreg' = 3
  /\ UNCHANGED <<callbacks_hotword, callbacks_intent_not_recognized, callbacks_topic,
                 callbacks_topic_regex, additional_topic, started, subscribed>>
  /\ UNCHANGED outcome
  /\ UNCHANGED loop
  /\ UNCHANGED timer_app

\* on_raw_message for an intent whose one handler fn returned EndSession(text)
Answered(intent_name, site_id, fn, text) ==
  /\ started
  /\ ~escaped
  /\ intent_name \in DOMAIN callbacks_intent
  /\ callbacks_intent[intent_name] = <<fn>>
  /\ last' = TimerMessage(intent_name, site_id)
  /\ invoked' = <<[fn |-> fn, data |-> <<>>, via |-> <<>>]>>
  /\ published' = <<IntentEndSession(Decoded(TimerMessage(intent_name, site_id).payload),
                                     EndSession(text))>>
  /\ log' = <<>>
  /\ escaped' = FALSE
  /\ prev_failed' = Failed
  /\ UNCHANGED registry
  /\ UNCHANGED <<started, subscribed, nreg>>
  /\ UNCHANGED loop

\* the call the event loop makes into the timer app
Event(kind, site_id, minutes, seconds) ==
  [kind |-> kind, site_id |-> site_id, minutes |-> minutes, seconds |-> seconds]

\* mutant of cancel: the handle is left as it is
cancel_Noop(hs, h) == hs

\* handle.cancel()
cancel(hs, h) == [hs EXCEPT ![h].cancelled = TRUE]

\* del activeTimerBySite[site_id]
Del(d, site_id) == [x \in DOMAIN d \ {site_id} |-> d[x]]

\* activeTimerBySite[site_id] = ActiveTimer(..., handle=h, ...)
Put(d, site_id, h) == [x \in DOMAIN d \cup {site_id} |-> IF x = site_id THEN h ELSE d[x]]

\* loop.call_later(total_seconds, countdown_reached, site_id)
call_later(hs, site_id) ==
  Append(hs, [site_id |-> site_id, cancelled |-> FALSE, ran |-> FALSE, stopped |-> FALSE])

\* mutant of AlreadyActive: start_timer does not look into the map
AlreadyActive_Never(site_id) == FALSE

\* `if intent.site_id in activeTimerBySite` of start_timer
AlreadyActive(site_id) == site_id \in DOMAIN activeTimerBySite

total_seconds(minutes, seconds) == minutes * 60 + seconds

\* start_timer returns without scheduling
Refused(site_id, minutes, seconds) ==
  AlreadyActive(site_id) \/ total_seconds(minutes, seconds) < 10

\* @app.on_intent("StartTimer") def start_timer(intent)
StartTimer(site_id, minutes, seconds) ==
  /\ Refused(site_id, minutes, seconds) \/ Len(handles) < MaxTimers
  /\ event' = Event("StartTimer", site_id, minutes, seconds)
  /\ IF AlreadyActive(site_id)
     THEN /\ Answered(STARTTIMER, site_id, "start_timer", "already active")
          /\ UNCHANGED <<activeTimerBySite, handles, notifications>>
     ELSE IF total_seconds(minutes, seconds) >= 10
     THEN /\ Answered(STARTTIMER, site_id, "start_timer", "new timer set")
          /\ handles' = call_later(handles, site_id)
          /\ activeTimerBySite' = Put(activeTimerBySite, site_id, Len(handles) + 1)
          /\ UNCHANGED notifications
     ELSE /\ Answered(STARTTIMER, site_id, "start_timer", "minimum 10 seconds")
          /\ UNCHANGED <<activeTimerBySite, handles, notifications>>

\* the handles after stop_timer cancelled h; the properties' mark is set too
Stopped(hs, h) == [hs EXCEPT ![h].stopped = TRUE]

\* @app.on_intent("StopTimer") def stop_timer(intent)
StopTimer(site_id) ==
  /\ event' = Event("StopTimer", site_id, 0, 0)
  /\ IF site_id \in DOMAIN activeTimerBySite
     THEN /\ Answered(STOPTIMER, site_id, "stop_timer", "timer stopped")
          /\ handles' = Stopped(cancel(handles, activeTimerBySite[site_id]),
                                activeTimerBySite[site_id])
          /\ activeTimerBySite' = Del(activeTimerBySite, site_id)
          /\ UNCHANGED notifications
     ELSE /\ Answered(STOPTIMER, site_id, "stop_timer", "no timer")
          /\ UNCHANGED <<activeTimerBySite, handles, notifications>>

\* @app.on_intent("QueryTimer") def query_timer(intent)
QueryTimer(site_id) ==
  /\ event' = Event("QueryTimer", site_id, 0, 0)
  /\ Answered(QUERYTIMER, site_id, "query_timer",
              IF site_id \in DOMAIN activeTimerBySite THEN "remaining" ELSE "no timer")
  /\ UNCHANGED <<activeTimerBySite, handles, notifications>>

\* the event loop runs handle h when it is due: countdown_reached(site_id)
TimerExpires(h) ==
  /\ h \in 1 .. Len(handles)
  /\ ~handles[h].cancelled
  /\ ~handles[h].ran
  /\ handles' = [handles EXCEPT ![h].ran = TRUE]
  /\ activeTimerBySite' =
       IF handles[h].site_id \in DOMAIN activeTimerBySite
       THEN Del(activeTimerBySite, handles[h].site_id) ELSE activeTimerBySite
  /\ published' = Append(published, StartSession(handles[h].site_id))
  /\ notifications' = Append(notifications, [site_id |-> handles[h].site_id, handle |-> h])
  /\ event' = Event("expiry", handles[h].site_id, 0, 0)
  /\ UNCHANGED registry
  /\ UNCHANGED <<started, subscribed, nreg, last, invoked, log, escaped, prev_failed>>
  /\ UNCHANGED loop

StartTimerIntent == \E site_id \in Sites, s \in Slots : StartTimer(site_id, s[1], s[2])
StopTimerIntent == \E site_id \in Sites : StopTimer(site_id)
QueryTimerIntent == \E site_id \in Sites : QueryTimer(site_id)
Expiry == \E h \in 1 .. MaxTimers : TimerExpires(h)

NextTimer == LoadTimerApp \/ run \/ StartTimerIntent \/ StopTimerIntent \/ QueryTimerIntent
             \/ Expiry

\* a due callback is run: the loop does not leave it waiting for ever
SpecTimer == Init /\ [][NextTimer]_vars /\ \A h \in 1 .. MaxTimers : WF_vars(TimerExpires(h))

\* ---------------------------------------------------------------- properties: vocabulary
Dispatched == last # NoMessage

LastKind ==
  IF ~Dispatched THEN "none"
  ELSE IF HotwordIsTopic(last.topic) THEN "hotword"
  ELSE IF IntentIsTopic(last.topic) THEN "intent"
  ELSE IF NotRecognizedIsTopic(last.topic) THEN "inr"
  ELSE "topic"

SessionKinds == {"intent", "inr"}

\* the handlers registered for the category of the latest message
CategoryHandlers ==
  CASE LastKind = "hotword" -> callbacks_hotword
    [] LastKind = "intent" ->
         IF last.payload.intent_name \in DOMAIN callbacks_intent
         THEN callbacks_intent[last.payload.intent_name] ELSE <<>>
    [] LastKind = "inr" -> callbacks_intent_not_recognized
    [] OTHER -> <<>>

InvokedFns == [i \in 1 .. Len(invoked) |-> invoked[i].fn]

Raises(h) == function(h).kind = "raise"
ReturnsEnd(r) == function(r.fn).kind = "EndSession"
ReturnsContinue(r) == function(r.fn).kind = "ContinueSession"
ReturnsSessionResult(r) == ReturnsEnd(r) \/ ReturnsContinue(r)
IsEndMessage(m) == m.type = "DialogueEndSession"
IsContinueMessage(m) == m.type = "DialogueContinueSession"
IsEndError(e) ==
  e \in {"error: cannot end session of intent without session ID",
         "error: cannot end session of intent not recognized message without session ID"}
IsContinueError(e) ==
  e \in {"error: cannot continue session of intent without session ID",
         "error: cannot continue session of intent not recognized message without session ID"}
IsDecodeError(e) == e = "error: missing key in JSON payload"

\* the calls made are the registered handlers in order, cut short only
\* behind a handler that raised
StopsOnlyAtRaise ==
  /\ Len(invoked) <= Len(CategoryHandlers)
  /\ InvokedFns = SubSeq(CategoryHandlers, 1, Len(invoked))
  /\ Len(invoked) < Len(CategoryHandlers) =>
       Len(invoked) >= 1 /\ Raises(invoked[Len(invoked)].fn)

\* the latest message was classified and delivered as the registry says
DeliveredNormally ==
  LastKind \in {"hotword", "intent", "inr"} =>
    IF last.payload.kind = "ok" THEN StopsOnlyAtRaise ELSE invoked = <<>>

\* ---------------------------------------------------------------- properties
\* C1: when several handlers are registered for the category of the dispatched
\* message and one of them raises, every handler registered after it is still
\* invoked for that message.
C1_HandlerIsolation ==
  (Dispatched /\ last.payload.kind = "ok") =>
    \A i \in 1 .. Len(CategoryHandlers) :
      Raises(CategoryHandlers[i]) =>
        \A j \in (i + 1) .. Len(CategoryHandlers) :
          j <= Len(invoked) /\ invoked[j].fn = CategoryHandlers[j]

\* C2: no exception leaves on_raw_message, whatever the topic, the payload and
\* the handlers do; and the message dispatched after a failing one is classified
\* and delivered to its handlers as the registry says.
C2_NoEscape ==
  /\ ~escaped
  /\ (Dispatched /\ prev_failed) => DeliveredNormally

\* a message with a sound payload was delivered without any log right after a failing one
C2_Witness ==
  /\ Dispatched /\ prev_failed /\ ~escaped
  /\ last.payload.kind = "ok" /\ Len(invoked) >= 1 /\ log = <<>>

\* C3: a dispatched message invokes the handlers registered for its category in
\* exactly the order they were registered, each exactly once.
C3_RegistrationOrder ==
  (Dispatched /\ last.payload.kind = "ok") => InvokedFns = CategoryHandlers

\* C4: no handler appears twice in the list of one category, and a handler
\* registered twice for a category is invoked once per message of that category.
C4_RegistryDedup ==
  LET NoDup(l) == \A i, j \in 1 .. Len(l) : i # j => l[i] # l[j]
  IN  Dispatched => NoDup(CategoryHandlers) /\ NoDup(InvokedFns)

\* the latest message is an intent or intent-not-recognized one carrying a session id
WithSession ==
  LastKind \in SessionKinds /\ last.payload.kind = "ok" /\ last.payload.session_id # None

\* C5: for a triggering intent or intent-not-recognized message with a session
\* id, each EndSession a handler returns publishes exactly one end-session
\* message, addressed with the message's session id and site id and carrying the
\* returned text and customData unchanged.
C5_EndSession ==
  WithSession =>
    LET pubs == SelectSeq(published, IsEndMessage)
        rets == SelectSeq(invoked, ReturnsEnd)
    IN  /\ Len(pubs) = Len(rets)
        /\ \A i \in 1 .. Len(rets) :
             pubs[i] = [type |-> "DialogueEndSession",
                        session_id |-> last.payload.session_id,
                        site_id |-> last.payload.site_id,
                        text |-> function(rets[i].fn).text,
                        custom_data |-> function(rets[i].fn).custom_data]

\* an intent-not-recognized message with a session id whose handler returned EndSession
C5_Witness ==
  /\ WithSession /\ LastKind = "inr"
  /\ \E i \in 1 .. Len(invoked) : ReturnsEnd(invoked[i])
  /\ \E i \in 1 .. Len(published) : IsEndMessage(published[i])

\* C6: for a triggering intent or intent-not-recognized message with a session
\* id, each ContinueSession a handler returns publishes exactly one
\* continue-session message for that session id and site id whose intent filter,
\* text, customData and route-unrecognized flag are the returned ones.
C6_ContinueSession ==
  WithSession =>
    LET pubs == SelectSeq(published, IsContinueMessage)
        rets == SelectSeq(invoked, ReturnsContinue)
    IN  /\ Len(pubs) = Len(rets)
        /\ \A i \in 1 .. Len(rets) :
             pubs[i] = [type |-> "DialogueContinueSession",
                        session_id |-> last.payload.session_id,
                        site_id |-> last.payload.site_id,
                        text |-> function(rets[i].fn).text,
                        intent_filter |-> function(rets[i].fn).intent_filter,
                        custom_data |-> function(rets[i].fn).custom_data,
                        send_intent_not_recognized |->
                          function(rets[i].fn).send_intent_not_recognized]

\* an intent with a session id whose handler returned ContinueSession with a filter of two names
C6_Witness ==
  /\ WithSession /\ LastKind = "intent"
  /\ \E i \in 1 .. Len(published) :
       IsContinueMessage(published[i]) /\ Len(published[i].intent_filter) = 2

\* the latest message is an intent or intent-not-recognized one without a session id
WithoutSession ==
  LastKind \in SessionKinds /\ last.payload.kind = "ok" /\ last.payload.session_id = None

\* C7: when the triggering message has no session id, an EndSession or
\* ContinueSession result publishes nothing and logs exactly one error, and the
\* remaining handlers and later messages are processed normally.
C7_ProtocolMisuse ==
  /\ WithoutSession =>
       /\ published = <<>>
       /\ Len(SelectSeq(log, IsEndError)) = Len(SelectSeq(invoked, ReturnsEnd))
       /\ Len(SelectSeq(log, IsContinueError)) = Len(SelectSeq(invoked, ReturnsContinue))
       /\ StopsOnlyAtRaise
       /\ ~escaped
  /\ (Dispatched /\ prev_failed) => DeliveredNormally

\* an intent-not-recognized message without session id: the first handler returned
\* EndSession, one error was logged, and the handler after it was called
C7_Witness ==
  /\ WithoutSession /\ LastKind = "inr"
  /\ Len(invoked) >= 2 /\ ReturnsEnd(invoked[1])
  /\ Len(SelectSeq(log, IsEndError)) = 1
  /\ published = <<>>

\* the payload of the latest hotword, intent or not-recognized message lacks a required field
DecodeFailure ==
  LastKind \in {"hotword", "intent", "inr"} /\ last.payload.kind = "missing"

\* C8: a hotword, intent or intent-not-recognized message whose payload lacks a
\* required field invokes no handler, logs exactly one decode failure and
\* publishes nothing, and the next message is dispatched normally.
C8_DecodeFailure ==
  /\ DecodeFailure =>
       /\ invoked = <<>>
       /\ published = <<>>
       /\ log = <<"error: missing key in JSON payload">>
       /\ ~escaped
  /\ (Dispatched /\ prev_failed) => DeliveredNormally

\* a decode failure on an intent whose name has registered handlers
C8_Witness ==
  /\ DecodeFailure /\ LastKind = "intent"
  /\ CategoryHandlers # <<>>
  /\ Len(SelectSeq(log, IsDecodeError)) = 1

\* ---------------------------------------------------------------- properties of on_topic
IsWildcard(token) == token = <<"+">> \/ token = <<"#">>

\* a pattern without `+`, `#` or `{name}` segment
IsLiteralPattern(topic_name) ==
  \A i \in 1 .. Len(Split(topic_name)) :
    ~IsWildcard(Split(topic_name)[i]) /\ ~IsPlaceholder(Split(topic_name)[i])

HasPlaceholder(topic_name) ==
  \E i \in 1 .. Len(Split(topic_name)) : IsPlaceholder(Split(topic_name)[i])

RECURSIVE SegmentsMatch(_, _)
\* the topic segments ts are matched by the pattern segments ps: a literal
\* equals its segment, `+` and `{name}` take one non-empty segment, a final
\* `#` takes one or more segments
SegmentsMatch(ps, ts) ==
  IF ps = <<>> THEN ts = <<>>
  ELSE IF ts = <<>> THEN FALSE
  ELSE IF Head(ps) = <<"#">> /\ Len(ps) = 1 THEN \A i \in 1 .. Len(ts) : ts[i] # <<>>
  ELSE IF Head(ps) = <<"+">> \/ IsPlaceholder(Head(ps))
  THEN Head(ts) # <<>> /\ SegmentsMatch(Tail(ps), Tail(ts))
  ELSE Head(ps) = Head(ts) /\ SegmentsMatch(Tail(ps), Tail(ts))

TopicMatches(topic_name, topic) == SegmentsMatch(Split(topic_name), Split(topic))

\* the topic has the literal segments of the pattern at their positions
LiteralsAgree(topic_name, topic) ==
  LET ps == Split(topic_name)
      ts == Split(topic)
  IN  \A i \in 1 .. Len(ps) :
        (~IsWildcard(ps[i]) /\ ~IsPlaceholder(ps[i])) => (i <= Len(ts) /\ ts[i] = ps[i])

\* name -> the topic's segment at the index of {name}
PlaceholderValues(topic_name, topic) ==
  LET ps == Split(topic_name)
      ts == Split(topic)
      idx == {i \in 1 .. Len(ps) : IsPlaceholder(ps[i])}
  IN  [n \in {Slice(ps[i], 1, -1) : i \in idx} |->
         ts[CHOOSE i \in idx : Slice(ps[i], 1, -1) = n]]

GenericDispatched == Dispatched /\ LastKind = "topic"

\* C9: every literal topic pattern (of any number of segments, a single one
\* included) is registered in the exact-match table under itself, and its
\* handler is invoked for one incoming topic only: the pattern string itself.
C9_LiteralExact ==
  GenericDispatched =>
    \A i \in 1 .. Len(invoked) :
      IsLiteralPattern(invoked[i].via) =>
        /\ invoked[i].via = last.topic
        /\ invoked[i].via \in DOMAIN callbacks_topic

\* C10: for a pattern with {name} at segment index i, every topic matched by the
\* pattern invokes the handler with a mapping in which name is the topic's
\* segment i, and a topic that differs in a literal segment does not invoke it.
\* (Stated for messages on which no handler raised and whose topic is not also
\* registered literally.)
C10_PlaceholderExtraction ==
  (GenericDispatched /\ ~Failed /\ last.topic \notin DOMAIN callbacks_topic) =>
    /\ \A k \in 1 .. Len(callbacks_topic_regex) :
         \A m \in 1 .. Len(callbacks_topic_regex[k].topic_extras) :
           LET x == callbacks_topic_regex[k].topic_extras[m]
           IN  (HasPlaceholder(x.topic_name) /\ TopicMatches(x.topic_name, last.topic)) =>
                 \E i \in 1 .. Len(invoked) :
                   /\ invoked[i].fn = callbacks_topic_regex[k].fn
                   /\ invoked[i].via = x.topic_name
                   /\ invoked[i].data = PlaceholderValues(x.topic_name, last.topic)
    /\ \A i \in 1 .. Len(invoked) :
         HasPlaceholder(invoked[i].via) =>
           /\ LiteralsAgree(invoked[i].via, last.topic)
           /\ invoked[i].data = PlaceholderValues(invoked[i].via, last.topic)

\* ---------------------------------------------------------------- properties of the matcher
\* the patterns are tried for the latest message (its topic is no key of the
\* exact-match table) and no handler raised
MatcherConsulted ==
  GenericDispatched /\ ~Failed /\ last.topic \notin DOMAIN callbacks_topic

\* function fn was called for its registration topic_name
InvokedVia(fn, topic_name) ==
  \E i \in 1 .. Len(invoked) : invoked[i].fn = fn /\ invoked[i].via = topic_name

\* the pattern has no `#` segment and at least one `+` or `{name}` segment
IsSingleLevelPattern(topic_name) ==
  LET ps == Split(topic_name)
  IN  /\ \A i \in 1 .. Len(ps) : ps[i] # <<"#">>
      /\ \E i \in 1 .. Len(ps) : ps[i] = <<"+">> \/ IsPlaceholder(ps[i])

\* the pattern is one or more literal segments followed by a final `#`
IsHashPattern(topic_name) ==
  LET ps == Split(topic_name)
  IN  /\ Len(ps) >= 2
      /\ ps[Len(ps)] = <<"#">>
      /\ \A i \in 1 .. (Len(ps) - 1) : ~IsWildcard(ps[i]) /\ ~IsPlaceholder(ps[i])

\* C11: for a pattern of literal, `+` and {name} segments, the handler is
\* invoked exactly for the topics that have as many segments as the pattern and
\* its literal segments in place, a `+` or {name} segment - the first one
\* included - taking any non-empty segment of any length.
C11_SingleLevel ==
  MatcherConsulted =>
    \A k \in 1 .. Len(callbacks_topic_regex) :
      \A m \in 1 .. Len(callbacks_topic_regex[k].topic_extras) :
        LET x == callbacks_topic_regex[k].topic_extras[m]
        IN  IsSingleLevelPattern(x.topic_name) =>
              (TopicMatches(x.topic_name, last.topic)
                 <=> InvokedVia(callbacks_topic_regex[k].fn, x.topic_name))

\* C12: for a pattern of literal segments followed by a final `#`, the handler
\* is invoked exactly for the topics made of the literal prefix and one or more
\* further segments: not for the bare prefix, not for another prefix.
C12_MultiLevel ==
  MatcherConsulted =>
    \A k \in 1 .. Len(callbacks_topic_regex) :
      \A m \in 1 .. Len(callbacks_topic_regex[k].topic_extras) :
        LET x == callbacks_topic_regex[k].topic_extras[m]
        IN  IsHashPattern(x.topic_name) =>
              (TopicMatches(x.topic_name, last.topic)
                 <=> InvokedVia(callbacks_topic_regex[k].fn, x.topic_name))

\* a/# was registered and its handler called for a topic two segments longer than the prefix
C12_Witness ==
  /\ MatcherConsulted
  /\ last.topic = <<"a", "/", "b", "/", "c">>
  /\ \E i \in 1 .. Len(invoked) : invoked[i].via = P_a_hash

\* `#` stands in a segment of the pattern that is not the last
IsMalformed(topic_name) ==
  \E i \in 1 .. (Len(Split(topic_name)) - 1) : Split(topic_name)[i] = <<"#">>

\* C13: a pattern with `#` in a segment other than the last is rejected at
\* registration: it enters neither the handler tables nor the subscription
\* filters, and no call is ever made for it.
C13_MalformedRejected ==
  /\ \A t \in DOMAIN callbacks_topic : ~IsMalformed(t)
  /\ \A k \in 1 .. Len(callbacks_topic_regex) :
       \A m \in 1 .. Len(callbacks_topic_regex[k].topic_extras) :
         ~IsMalformed(callbacks_topic_regex[k].topic_extras[m].topic_name)
  /\ \A i \in 1 .. Len(additional_topic) : ~IsMalformed(additional_topic[i])
  /\ \A t \in BagToSet(subscribed) : ~IsMalformed(t)
  /\ \A i \in 1 .. Len(invoked) : ~IsMalformed(invoked[i].via)

\* the filters the registry calls for
ExpectedFilters ==
  {IntentTopic(n) : n \in DOMAIN callbacks_intent}
  \cup (IF callbacks_hotword # <<>> THEN {HotwordTopic} ELSE {})
  \cup (IF callbacks_intent_not_recognized # <<>> THEN {NotRecognizedTopic} ELSE {})
  \cup DOMAIN callbacks_topic
  \cup UNION {{ReplacedTopicName(callbacks_topic_regex[k].topic_extras[m].topic_name) :
                 m \in 1 .. Len(callbacks_topic_regex[k].topic_extras)} :
               k \in 1 .. Len(callbacks_topic_regex)}

\* C14: the list handed to subscribe_topics at start-up holds no filter twice
\* and is the union of the intent filters, the hotword and not-recognized
\* filters when such handlers exist, the literal topics and the compiled
\* wildcard filters.
C14_SubscriptionFilters ==
  started =>
    /\ BagToSet(subscribed) = ExpectedFilters
    /\ \A t \in BagToSet(subscribed) : CopiesIn(t, subscribed) = 1

\* C15: when the topic is registered literally and also matched by registered
\* patterns, the handlers of the patterns are invoked too, after all
\* exact-match handlers.
C15_ExactThenPattern ==
  (GenericDispatched /\ ~Failed /\ last.topic \in DOMAIN callbacks_topic) =>
    \A k \in 1 .. Len(callbacks_topic_regex) :
      \A m \in 1 .. Len(callbacks_topic_regex[k].topic_extras) :
        LET x == callbacks_topic_regex[k].topic_extras[m]
        IN  (~IsLiteralPattern(x.topic_name) /\ TopicMatches(x.topic_name, last.topic)) =>
              \E i \in 1 .. Len(invoked) :
                /\ i > Len(callbacks_topic[last.topic])
                /\ invoked[i].fn = callbacks_topic_regex[k].fn
                /\ invoked[i].via = x.topic_name

\* ---------------------------------------------------------------- properties of the event loop
IsStartSession(m) == m.type = "DialogueStartSession"
IsSessionMessage(m) == ~IsStartSession(m)

\* what on_raw_message as a whole makes of the latest message
Whole ==
  on_raw_message(callbacks_hotword, callbacks_intent, callbacks_intent_not_recognized,
                 callbacks_topic, callbacks_topic_regex, last.topic, last.payload)

SessionShaped == LastKind \in {"hotword", "intent", "inr"}

\* C17: a message is dispatched to the handlers of one category only, chosen by
\* testing hotword shape, then intent shape, then not-recognized shape, else
\* generic topic; a message of hotword, intent or not-recognized shape never
\* reaches a raw-topic handler, also when a registered topic or pattern
\* matches its topic.
C17_ExclusiveClassification ==
  Dispatched =>
    /\ SessionShaped =>
         /\ \A i \in 1 .. Len(invoked) : invoked[i].via = <<>>
         /\ Len(invoked) <= Len(CategoryHandlers)
         /\ InvokedFns = SubSeq(CategoryHandlers, 1, Len(invoked))
         /\ \A i \in 1 .. Len(log) : log[i] # "warning: unexpected topic"
    /\ LastKind = "topic" =>
         \A i \in 1 .. Len(invoked) : invoked[i].via # <<>>

\* an intent-not-recognized message went to its own handler although its
\* topic is also registered literally with on_topic
C17_Witness ==
  /\ LastKind = "inr" /\ last.payload.kind = "ok"
  /\ last.topic \in DOMAIN callbacks_topic
  /\ Len(invoked) = 1 /\ invoked[1].via = <<>>

\* ---------------------------------------------------------------- properties of the diagnostics and of publishing
IsUnexpectedTopicWarning(e) == e = "warning: unexpected topic"

\* the topic of the latest message is a key of the exact-match table, or a
\* compiled pattern of some registered function matches it
MatchedByRegistry ==
  \/ last.topic \in DOMAIN callbacks_topic
  \/ \E k \in 1 .. Len(callbacks_topic_regex) :
       \E m \in 1 .. Len(callbacks_topic_regex[k].topic_extras) :
         re_match(callbacks_topic_regex[k].topic_extras[m].pattern, last.topic)

C19_SingleCause ==
  Dispatched =>
    /\ IF WithSession
       THEN LET rets == SelectSeq(invoked, ReturnsSessionResult)
            IN  /\ Len(published) = Len(rets)
                /\ \A i \in 1 .. Len(rets) :
                     /\ published[i].session_id = last.payload.session_id
                     /\ published[i].text = function(rets[i].fn).text
                     /\ IsEndMessage(published[i]) <=> ReturnsEnd(rets[i])
                     /\ IsContinueMessage(published[i]) <=> ReturnsContinue(rets[i])
       ELSE published = <<>>
    /\ (LastKind = "intent" /\ last.payload.kind = "ok"
          /\ last.payload.intent_name \notin DOMAIN callbacks_intent) =>
         invoked = <<>> /\ published = <<>> /\ log = <<>>

\* a hotword message carrying a session id whose handler returned EndSession:
\* the handler was called and nothing was published
C19_Witness ==
  /\ LastKind = "hotword" /\ last.payload.session_id # None
  /\ \E i \in 1 .. Len(invoked) : ReturnsEnd(invoked[i])
  /\ published = <<>>

\* C20: processing a message, whatever its topic, payload and outcome, leaves
\* the handler tables, the compiled patterns and the subscription filters as
\* they were.
C20_RegistryFrame ==
  [][started => UNCHANGED <<callbacks_hotword, callbacks_intent,
                            callbacks_intent_not_recognized, callbacks_topic,
                            callbacks_topic_regex, additional_topic, subscribed>>]_vars

\* a message failed (decode failure or handler exception) with intent handlers
\* and pattern handlers registered
C20_Witness ==
  /\ Dispatched /\ Failed
  /\ callbacks_intent # EmptyDict /\ callbacks_topic_regex # <<>>

\* ---------------------------------------------------------------- properties of the fan-out
\* the topic names of the k-th function of _callbacks_topic_regex
NamesOf(k) ==
  {callbacks_topic_regex[k].topic_extras[m].topic_name :
     m \in 1 .. Len(callbacks_topic_regex[k].topic_extras)}

\* the calls of the latest message that the k-th registration can have
\* received: its function, for one of its patterns
CallsOf(k) ==
  {i \in 1 .. Len(invoked) :
     invoked[i].fn = callbacks_topic_regex[k].fn /\ invoked[i].via \in NamesOf(k)}

\* the registrations (of the same function, sharing a pattern with those
\* calls) among which the calls of CallsOf(k) are to be divided
PeersOf(k) ==
  {j \in 1 .. Len(callbacks_topic_regex) :
     /\ callbacks_topic_regex[j].fn = callbacks_topic_regex[k].fn
     /\ \E i \in CallsOf(k) : invoked[i].via \in NamesOf(j)}

\* C21: a raw-topic handler is invoked at most once per message, also when
\* several patterns of its one on_topic call match the topic: the calls a
\* registration can have received are no more than one for each registration
\* that can have received them.
C21_OncePerMessage ==
  GenericDispatched =>
    \A k \in 1 .. Len(callbacks_topic_regex) :
      Cardinality(CallsOf(k)) <= Cardinality(PeersOf(k))

\* every handler registered for the intent of the latest message returns a
\* session result, and the message carries a session id
AllReturnSessionResults ==
  /\ Dispatched /\ WithSession /\ LastKind = "intent"
  /\ \A i \in 1 .. Len(PendingHandlers) :
       function(PendingHandlers[i]).kind \in {"EndSession", "ContinueSession"}

\* the outbound message that answers the result of handler h
AnswerOf(h) ==
  IF function(h).kind = "EndSession"
  THEN IntentEndSession(Decoded(last.payload), function(h))
  ELSE IntentContinueSession(Decoded(last.payload), function(h))

\* C22: when the n handlers of an intent name each return a session result
\* for a message with a session id, their outbound messages are published in
\* registration order, each before the next handler is invoked (after k calls
\* exactly the k answers of the first k handlers are out), and n in all.
C22_ResponseOrder ==
  AllReturnSessionResults =>
    LET pubs == SelectSeq(published, IsSessionMessage)
    IN  /\ Len(pubs) = Len(invoked)
        /\ \A i \in 1 .. Len(pubs) :
             /\ i <= Len(PendingHandlers)
             /\ invoked[i].fn = PendingHandlers[i]
             /\ pubs[i] = AnswerOf(PendingHandlers[i])
        /\ pc = "idle" => Len(pubs) = Len(PendingHandlers)

\* between the two handlers of an intent: the first returned EndSession and
\* its answer is out, the second, which returns ContinueSession, is yet to be called
C22_Witness ==
  /\ AllReturnSessionResults
  /\ pc = "on_raw_message" /\ pos = 2
  /\ PendingHandlers = <<"hTimer", "hCont">>
  /\ Len(published) = 1 /\ IsEndMessage(published[1])

\* ---------------------------------------------------------------- claims on the timer app
\* handle h is scheduled and has neither fired nor been cancelled
Pending(h) == ~handles[h].cancelled /\ ~handles[h].ran

PendingOf(site_id) ==
  {h \in 1 .. Len(handles) : handles[h].site_id = site_id /\ Pending(h)}

\* the latest call into the timer app was a StartTimer that start_timer must
\* refuse: its site had an active timer, or its duration is below 10 seconds
RefusedStartTimer ==
  /\ event'.kind = "StartTimer"
  /\ \/ event'.site_id \in DOMAIN activeTimerBySite
     \/ event'.minutes * 60 + event'.seconds < 10

OneTimerPerSite ==
  \A site_id \in Sites :
    /\ Cardinality(PendingOf(site_id)) <= 1
    /\ site_id \in DOMAIN activeTimerBySite <=> Cardinality(PendingOf(site_id)) = 1
    /\ site_id \in DOMAIN activeTimerBySite
         => activeTimerBySite[site_id] \in PendingOf(site_id)

\* C23: after any sequence of StartTimer, StopTimer, QueryTimer intents and
\* expiries every site has at most one pending callback, a site is in
\* activeTimerBySite exactly when it has one (and the map names it), and a
\* StartTimer for a site with an active timer or with less than 10 seconds
\* schedules nothing and leaves the map as it was.
C23_TimerInvariant ==
  /\ []OneTimerPerSite
  /\ [][RefusedStartTimer
          => handles' = handles /\ activeTimerBySite' = activeTimerBySite]_vars

\* C23 witness: with one timer expired, one stopped and one pending for the
\* same site, a further StartTimer for that site has been refused.
C23_Witness ==
  /\ event.kind = "StartTimer"
  /\ event.minutes * 60 + event.seconds >= 10
  /\ event.site_id \in DOMAIN activeTimerBySite
  /\ Len(published) = 1 /\ published[1].text = "already active"
  /\ \E h \in 1 .. Len(handles) : handles[h].site_id = event.site_id /\ handles[h].ran
  /\ \E h \in 1 .. Len(handles) : handles[h].site_id = event.site_id /\ handles[h].cancelled

\* the expiry notifications published for handle h
NotificationsOf(h) == {i \in 1 .. Len(notifications) : notifications[i].handle = h}

\* no notification belongs to a timer stop_timer has stopped, no timer has
\* two, each names the site of its timer, and a timer that fired has one
NotificationsSound ==
  /\ \A i \in 1 .. Len(notifications) :
       /\ ~handles[notifications[i].handle].stopped
       /\ notifications[i].site_id = handles[notifications[i].handle].site_id
  /\ \A h \in 1 .. Len(handles) :
       /\ Cardinality(NotificationsOf(h)) <= 1
       /\ handles[h].ran => NotificationsOf(h) # {}

\* right after an expiry the notification for the site is the latest
\* publish and the site has no active timer
ExpiryFreesSite ==
  event.kind = "expiry"
    => /\ published # <<>>
       /\ published[Len(published)] = StartSession(event.site_id)
       /\ event.site_id \notin DOMAIN activeTimerBySite

\* a StartTimer of at least 10 seconds for a site without active timer
AcceptableStartTimer ==
  /\ event'.kind = "StartTimer"
  /\ event'.site_id \notin DOMAIN activeTimerBySite
  /\ event'.minutes * 60 + event'.seconds >= 10

StartTimerAccepted ==
  /\ Len(handles') = Len(handles) + 1
  /\ event'.site_id \in DOMAIN activeTimerBySite'
  /\ activeTimerBySite'[event'.site_id] = Len(handles')

\* C24: the notification of a timer that stop_timer stopped is never
\* published; a timer publishes at most one notification, for its own site;
\* an expiry frees the site, so that a later StartTimer for it is accepted;
\* and a pending timer eventually expires unless it is stopped.
C24_CancelAndExpiry ==
  /\ [](NotificationsSound /\ ExpiryFreesSite)
  /\ [][AcceptableStartTimer => StartTimerAccepted]_vars
  /\ \A h \in 1 .. MaxTimers :
       (h <= Len(handles) /\ Pending(h))
         ~> (h <= Len(handles) /\ (handles[h].ran \/ handles[h].stopped))

\* C24 witness: one timer was stopped and has no notification, a second one
\* expired with its notification, and a later StartTimer for the site of the
\* second was accepted.
C24_Witness ==
  /\ Len(notifications) = 1
  /\ \E h1, h2, h3 \in 1 .. Len(handles) :
       /\ handles[h1].stopped /\ NotificationsOf(h1) = {}
       /\ handles[h2].ran /\ NotificationsOf(h2) # {}
       /\ h2 < h3 /\ handles[h3].site_id = handles[h2].site_id /\ Pending(h3)
       /\ activeTimerBySite[handles[h3].site_id] = h3

====
